---------------------------- MODULE Spec2Model ----------------------------
(***************************************************************************)
(* Onyx.Taxi: the Flask/SQLAlchemy record-keeping API of src/api_taxi.py.  *)
(* The state is the committed contents of the PostgreSQL database the      *)
(* engine is bound to (tables clients, drivers, orders and their id        *)
(* sequences), plus the last request served, its response and the calls    *)
(* it made on its session.  In Spec requests are served one at a time and  *)
(* each HTTP handler is one action: validation decorator, session_scope,   *)
(* the handler's body, and the commit or rollback that ends the scope.     *)
(* SpecCreate runs two create requests statement by statement, each in its *)
(* own session and transaction (txn).                                      *)
(***************************************************************************)
EXTENDS Integers, Sequences, FiniteSets, TLC

VARIABLES db, pre, req, resp, trace, txn

vars == <<db, pre, req, resp, trace, txn>>

(***************************************************************************)
(* Bounds of the model.                                                    *)
(***************************************************************************)
\* ids used in request paths are 1..MaxId; an id sequence hands out at most
\* the values 1..MaxId
MaxId == 2

Ids == 1..MaxId

(***************************************************************************)
(* Python values.  t is the Python type, w the number of enclosing         *)
(* one-element tuples (the value of the expression `x,`).                  *)
(***************************************************************************)
PyInt(i) == [t |-> "int", n |-> i, s |-> "", b |-> FALSE, w |-> 0]

PyStr(x) == [t |-> "str", n |-> 0, s |-> x, b |-> FALSE, w |-> 0]

PyBool(x) == [t |-> "bool", n |-> 0, s |-> "", b |-> x, w |-> 0]

PyDateTime(x) == [t |-> "datetime", n |-> 0, s |-> x, b |-> FALSE, w |-> 0]

PyNone == [t |-> "NoneType", n |-> 0, s |-> "", b |-> FALSE, w |-> 0]

\* the expression `v,` : a tuple holding v
PyTuple1(v) == [v EXCEPT !.w = v.w + 1]

(***************************************************************************)
(* Table rows.  id is the integer primary key, the other columns hold the  *)
(* Python value SQLAlchemy loads for them.                                 *)
(***************************************************************************)
Client(id, name, is_vip) == [id |-> id, name |-> name, is_vip |-> is_vip]

Driver(id, name, car) == [id |-> id, name |-> name, car |-> car]

Order(id, client_id, driver_id, date_created, status, address_from, address_to) ==
    [id |-> id, client_id |-> client_id, driver_id |-> driver_id,
     date_created |-> date_created, status |-> status,
     address_from |-> address_from, address_to |-> address_to]

(***************************************************************************)
(* JSON schemas.  A property is [type, minLength, enum]; minLength 0 and   *)
(* enum {} stand for an absent keyword.  Every schema has type object,     *)
(* a required list and additionalProperties false.                         *)
(***************************************************************************)
Prop(type, minLength, enum) == [type |-> type, minLength |-> minLength, enum |-> enum]

drivers_post_schema ==
    [required |-> {"name", "car"},
     properties |-> [name |-> Prop("string", 2, {}),
                     car  |-> Prop("string", 2, {})]]

clients_post_schema ==
    [required |-> {"name", "is_vip"},
     properties |-> [name   |-> Prop("string", 1, {}),
                     is_vip |-> Prop("boolean", 0, {})]]

Statuses == {"not_accepted", "in_progress", "done", "cancelled"}

orders_post_schema ==
    [required |-> {"client_id", "driver_id", "date_created", "status",
                   "address_from", "address_to"},
     properties |-> [client_id    |-> Prop("integer", 0, {}),
                     driver_id    |-> Prop("integer", 0, {}),
                     date_created |-> Prop("string", 0, {}),
                     status       |-> Prop("string", 0, Statuses),
                     address_from |-> Prop("string", 1, {}),
                     address_to   |-> Prop("string", 1, {})]]

\* jsonschema's type keyword on a decoded JSON value
IsType(v, type) ==
    /\ v.w = 0
    /\ \/ type = "integer" /\ v.t = "int"
       \/ type = "string"  /\ v.t = "str"
       \/ type = "boolean" /\ v.t = "bool"

\* validate with the ValidationError never raised
validate_nothing(instance, schema) == TRUE

\* jsonschema.validate(instance, schema) raises no ValidationError.  No
\* format_checker is passed, so "format" is not enforced.
validate(instance, schema) ==
    /\ schema.required \subseteq DOMAIN instance
    /\ DOMAIN instance \subseteq DOMAIN schema.properties
    /\ \A k \in DOMAIN instance :
          LET p == schema.properties[k]
              v == instance[k]
          IN  /\ IsType(v, p.type)
              /\ v.t = "str" => Len(v.s) >= p.minLength
              /\ p.enum # {} => (v.t = "str" /\ v.s \in p.enum)

(***************************************************************************)
(* Responses: status code, a tag for the text, and for a __repr__ text the *)
(* values interpolated into it.                                            *)
(***************************************************************************)
Response(text, status) == [code |-> status, text |-> text, row |-> << >>]

Repr(text, row) == [code |-> 200, text |-> text, row |-> row]

\* an exception that leaves the view function: Flask answers 500
Unhandled(exc) == [code |-> 500, text |-> exc, row |-> << >>]

(***************************************************************************)
(* The database.                                                           *)
(***************************************************************************)
\* query(T).get(id): the row, or None (the empty set here)
Get(table, id) == {r \in table : r.id = id}

\* First with the order ascending
First_ascending(table) == {r \in table : \A q \in table : q.id >= r.id}

\* query(T).order_by(T.id.desc()).first()
First(table) == {r \in table : \A q \in table : q.id <= r.id}

\* the constraints the tables are created with: unique names, and the two
\* foreign keys of orders (NO ACTION on delete)
Constraints(d) ==
    /\ \A c1, c2 \in d.clients : c1.name = c2.name => c1 = c2
    /\ \A d1, d2 \in d.drivers : d1.name = d2.name => d1 = d2
    /\ \A o \in d.orders :
          /\ o.client_id = PyNone \/ \E c \in d.clients : PyInt(c.id) = o.client_id
          /\ o.driver_id = PyNone \/ \E x \in d.drivers : PyInt(x.id) = o.driver_id

EmptyDB ==
    [clients |-> {}, drivers |-> {}, orders |-> {},
     seq |-> [clients |-> 1, drivers |-> 1, orders |-> 1]]


(***************************************************************************)
(* What a column stores for a bound Python value, as psycopg2 renders it:  *)
(* a one-element tuple is rendered "(v)", which PostgreSQL reads as v; a   *)
(* string bound to a timestamp column is parsed to a timestamp.  The empty *)
(* set stands for a statement the database refuses.                        *)
(***************************************************************************)
Column(type, v) ==
    LET u == [v EXCEPT !.w = 0]
    IN  IF v.w > 1 THEN {}
        ELSE IF u = PyNone THEN {u}
        ELSE IF type = "Integer"  /\ u.t = "int"  THEN {u}
        ELSE IF type = "String"   /\ u.t = "str"  THEN {u}
        ELSE IF type = "Boolean"  /\ u.t = "bool" THEN {u}
        ELSE IF type = "DateTime" /\ u.t \in {"str", "datetime"} THEN {PyDateTime(u.s)}
        ELSE {}

\* nullable=False
NotNull(col) == col # {} /\ PyNone \notin col

The(singleton) == CHOOSE x \in singleton : TRUE

(***************************************************************************)
(* session_scope.  A block is what the body of the with statement did:     *)
(* raised is the exception that left it ("" for none), ret the value it    *)
(* returned, tx the tables as the open transaction sees them, with the     *)
(* session's unflushed changes applied.                                    *)
(***************************************************************************)
Block(raised, ret, tx) == [raised |-> raised, ret |-> ret, tx |-> tx]

\* session.rollback(): the tables are as committed; values drawn from a
\* sequence are not given back
rollback(d, tx) == [d EXCEPT !.seq = tx.seq]

\* session_scope with the close after the commit instead of in a finally
session_scope_no_finally(d, blk) ==
    IF blk.raised # ""
    THEN [raised |-> blk.raised, ret |-> blk.ret, db |-> rollback(d, blk.tx),
          log |-> <<"Session", "yield", "rollback">>]
    ELSE IF ~Constraints(blk.tx)
    THEN [raised |-> "IntegrityError", ret |-> blk.ret, db |-> rollback(d, blk.tx),
          log |-> <<"Session", "yield", "commit", "rollback">>]
    ELSE [raised |-> "", ret |-> blk.ret, db |-> blk.tx,
          log |-> <<"Session", "yield", "commit", "close">>]

\* lines 132-140: commit when the block ends normally (a return included),
\* roll back and re-raise when it raises or the commit's flush is refused,
\* close in either case.  log is the calls made on the session, in order.
session_scope(d, blk) ==
    IF blk.raised # ""
    THEN [raised |-> blk.raised, ret |-> blk.ret, db |-> rollback(d, blk.tx),
          log |-> <<"Session", "yield", "rollback", "close">>]
    ELSE IF ~Constraints(blk.tx)
    THEN [raised |-> "IntegrityError", ret |-> blk.ret, db |-> rollback(d, blk.tx),
          log |-> <<"Session", "yield", "commit", "rollback", "close">>]
    ELSE [raised |-> "", ret |-> blk.ret, db |-> blk.tx,
          log |-> <<"Session", "yield", "commit", "close">>]

\* what the view function hands to Flask
Outcome(scope) ==
    IF scope.raised # ""
    THEN [resp |-> Unhandled(scope.raised), db |-> scope.db, log |-> scope.log]
    ELSE [resp |-> scope.ret, db |-> scope.db, log |-> scope.log]

\* repr_of with an attribute read that None does not have
repr_of_attribute(obj, text, row) ==
    IF obj = {} THEN Unhandled("AttributeError") ELSE Repr(text, row)

\* obj.__repr__() on what a query returned: None.__repr__() is the text
\* 'None', it raises nothing
repr_of(obj, text, row) == IF obj = {} THEN Repr("None", << >>) ELSE Repr(text, row)

\* the schema each view function is decorated with (lines 155, 191, 227, 246)
decorator(view) ==
    IF view = "create_client" THEN clients_post_schema ELSE drivers_post_schema

\* validate_schema with the view function called before the body is checked
validate_schema_late(schema_name, json, d, out) ==
    IF validate(json, schema_name)
    THEN out
    ELSE [resp |-> Response("validation_error", 400), db |-> out.db, log |-> out.log]

\* the decorator of lines 110-121: the view function runs only when the
\* body validates
validate_schema(schema_name, json, d, out) ==
    IF validate(json, schema_name)
    THEN out
    ELSE [resp |-> Response("validation_error", 400), db |-> d, log |-> << >>]

(***************************************************************************)
(* Clients                                                                 *)
(***************************************************************************)
ClientRow(c) == <<c.name, c.is_vip, PyInt(c.id)>>

get_client(d, client_id) ==
    LET cli   == Get(d.clients, client_id)
        scope == session_scope(d, Block("", Response("", 200), d))
    IN  IF scope.raised # "" THEN Outcome(scope)
        ELSE [resp |-> repr_of(cli, "Client", IF cli = {} THEN << >> ELSE ClientRow(The(cli))),
              db   |-> scope.db,
              log  |-> scope.log]

\* s.add(new_cli) and the flush the following query triggers
InsertClient(d, name, is_vip) ==
    LET id   == d.seq.clients
        n    == Column("String", name)
        v    == Column("Boolean", is_vip)
        used == [d EXCEPT !.seq.clients = id + 1]
    IN  IF ~(NotNull(n) /\ NotNull(v))
        THEN [ok |-> FALSE, raised |-> "DataError", tx |-> d]
        ELSE LET tx == [used EXCEPT !.clients = @ \cup {Client(id, The(n), The(v))}]
             IN  IF Constraints(tx)
                 THEN [ok |-> TRUE, raised |-> "", tx |-> tx]
                 ELSE [ok |-> FALSE, raised |-> "IntegrityError", tx |-> used]

create_client_body(d, content) ==
    IF ~({"name", "is_vip"} \subseteq DOMAIN content)
    THEN Block("KeyError", Response("", 200), d)
    ELSE LET ins == InsertClient(d, content["name"], content["is_vip"])
         IN  IF ~ins.ok THEN Block(ins.raised, Response("", 200), ins.tx)
             ELSE LET cli_info == First(ins.tx.clients)
                  IN  Block("", repr_of(cli_info, "Client", ClientRow(The(cli_info))), ins.tx)

create_client(d, content) ==
    validate_schema(decorator("create_client"), content, d,
                    Outcome(session_scope(d, create_client_body(d, content))))

delete_client(d, client_id) ==
    LET cli == Get(d.clients, client_id)
        blk == IF cli # {}
               THEN Block("", Response("client_deleted", 200),
                          [d EXCEPT !.clients = @ \ cli])
               ELSE Block("", Response("client_not_found", 404), d)
    IN  Outcome(session_scope(d, blk))

(***************************************************************************)
(* Drivers                                                                 *)
(***************************************************************************)
DriverRow(x) == <<x.name, x.car, PyInt(x.id)>>

get_driver(d, driver_id) ==
    LET dr  == Get(d.drivers, driver_id)
        ret == repr_of(dr, "Driver", IF dr = {} THEN << >> ELSE DriverRow(The(dr)))
    IN  Outcome(session_scope(d, Block(IF ret.code = 500 THEN ret.text ELSE "", ret, d)))

InsertDriver(d, name, car) ==
    LET id   == d.seq.drivers
        n    == Column("String", name)
        c    == Column("String", car)
        used == [d EXCEPT !.seq.drivers = id + 1]
    IN  IF ~(NotNull(n) /\ NotNull(c))
        THEN [ok |-> FALSE, raised |-> "DataError", tx |-> d]
        ELSE LET tx == [used EXCEPT !.drivers = @ \cup {Driver(id, The(n), The(c))}]
             IN  IF Constraints(tx)
                 THEN [ok |-> TRUE, raised |-> "", tx |-> tx]
                 ELSE [ok |-> FALSE, raised |-> "IntegrityError", tx |-> used]

create_driver_body(d, content) ==
    IF ~({"name", "car"} \subseteq DOMAIN content)
    THEN Block("KeyError", Response("", 200), d)
    ELSE LET ins == InsertDriver(d, content["name"], content["car"])
         IN  IF ~ins.ok THEN Block(ins.raised, Response("", 200), ins.tx)
             ELSE LET dr_info == First(ins.tx.drivers)
                  IN  Block("", repr_of(dr_info, "Driver", DriverRow(The(dr_info))), ins.tx)

create_driver(d, content) ==
    validate_schema(decorator("create_driver"), content, d,
                    Outcome(session_scope(d, create_driver_body(d, content))))

delete_driver(d, driver_id) ==
    LET dr  == Get(d.drivers, driver_id)
        blk == IF dr # {}
               THEN Block("", Response("driver_deleted", 200),
                          [d EXCEPT !.drivers = @ \ dr])
               ELSE Block("", Response("driver_not_found", 404), d)
    IN  Outcome(session_scope(d, blk))

(***************************************************************************)
(* Orders                                                                  *)
(***************************************************************************)
OrderRow(o) ==
    <<PyInt(o.id), o.client_id, o.driver_id, o.address_from, o.address_to,
      o.date_created, o.status>>

OrderKeys == {"client_id", "driver_id", "date_created", "status", "address_from", "address_to"}

status_chain ==
    [not_accepted |-> {"in_progress", "cancelled"},
     in_progress  |-> {"cancelled", "done"}]

get_order(d, order_id) ==
    LET ord == Get(d.orders, order_id)
        ret == repr_of(ord, "Order", IF ord = {} THEN << >> ELSE OrderRow(The(ord)))
    IN  Outcome(session_scope(d, Block(IF ret.code = 500 THEN ret.text ELSE "", ret, d)))

\* the row the database stores for the attribute values of an Order object;
\* the empty set when it refuses one of them
StoredOrder(o) ==
    LET c  == Column("Integer", o.client_id)
        x  == Column("Integer", o.driver_id)
        t  == Column("DateTime", o.date_created)
        st == Column("String", o.status)
        af == Column("String", o.address_from)
        at == Column("String", o.address_to)
    IN  IF c # {} /\ x # {} /\ NotNull(t) /\ NotNull(st) /\ NotNull(af) /\ NotNull(at)
        THEN {Order(o.id, The(c), The(x), The(t), The(st), The(af), The(at))}
        ELSE {}

\* s.add(new_ord) and the flush the following query triggers
InsertOrder(d, new_ord) ==
    LET id   == d.seq.orders
        row  == StoredOrder([new_ord EXCEPT !.id = id])
        used == [d EXCEPT !.seq.orders = id + 1]
    IN  IF row = {}
        THEN [ok |-> FALSE, raised |-> "DataError", tx |-> d]
        ELSE LET tx == [used EXCEPT !.orders = @ \cup row]
             IN  IF Constraints(tx)
                 THEN [ok |-> TRUE, raised |-> "", tx |-> tx]
                 ELSE [ok |-> FALSE, raised |-> "IntegrityError", tx |-> used]

create_order_body(d, content) ==
    IF ~(OrderKeys \subseteq DOMAIN content)
    THEN Block("KeyError", Response("", 200), d)
    ELSE LET new_ord == Order(0, content["client_id"], content["driver_id"],
                              content["date_created"], content["status"],
                              content["address_from"], content["address_to"])
             ins     == InsertOrder(d, new_ord)
         IN  IF ~ins.ok THEN Block(ins.raised, Response("", 200), ins.tx)
             ELSE LET ord_info == The(First(ins.tx.orders))
                      \* the session's identity map returns new_ord itself, its
                      \* attributes as assigned
                      shown    == IF ord_info.id = d.seq.orders
                                  THEN [new_ord EXCEPT !.id = ord_info.id]
                                  ELSE ord_info
                  IN  Block("", Repr("Order", OrderRow(shown)), ins.tx)

\* line 227: the decorator is given drivers_post_schema
create_order(d, content) ==
    validate_schema(decorator("create_order"), content, d,
                    Outcome(session_scope(d, create_order_body(d, content))))

\* the condition of lines 255-256, evaluated left to right with short
\* circuit: "KeyError" when a key it reaches is missing from content
in_progress_locked(ord, content) ==
    IF ord.status # PyStr("in_progress") THEN "False"
    ELSE IF "date_created" \notin DOMAIN content THEN "KeyError"
    ELSE IF ~(ord.date_created # content["date_created"]) THEN "False"
    ELSE IF "client_id" \notin DOMAIN content THEN "KeyError"
    ELSE IF ~(ord.client_id # content["client_id"]) THEN "False"
    ELSE IF "driver_id" \notin DOMAIN content THEN "KeyError"
    ELSE IF ~(ord.driver_id # content["driver_id"]) THEN "False"
    ELSE "True"

\* lines 260-265: five of the six assignments end in a comma and assign a
\* one-element tuple
assign_fields(ord, content) ==
    [ord EXCEPT !.client_id    = PyTuple1(content["client_id"]),
                !.driver_id    = PyTuple1(content["driver_id"]),
                !.date_created = PyTuple1(content["date_created"]),
                !.status       = PyTuple1(content["status"]),
                !.address_from = PyTuple1(content["address_from"]),
                !.address_to   = content["address_to"]]

\* lines 258-267, for an order that is neither terminal nor locked
apply_chain(d, ord, content) ==
    IF ord.status.t = "str" /\ ord.status.s \in DOMAIN status_chain
    THEN IF "status" \notin DOMAIN content
         THEN Block("KeyError", Response("", 200), d)
         ELSE IF content["status"].w = 0 /\ content["status"].t = "str"
                 /\ content["status"].s \in status_chain[ord.status.s]
         THEN IF ~(OrderKeys \subseteq DOMAIN content)
              THEN Block("KeyError", Response("", 200), d)
              ELSE LET new == assign_fields(ord, content)
                       row == StoredOrder(new)
                   IN  IF row = {}
                       THEN Block("DataError", Response("", 200), d)
                       ELSE Block("", Repr("Order", OrderRow(new)),
                                  [d EXCEPT !.orders = (@ \ {ord}) \cup row])
         ELSE Block("", Response("bad_status", 400), d)
    ELSE Block("", Repr("Order", OrderRow(ord)), d)

\* change_order_body with the terminal test misspelling "cancelled"
change_order_body_typo(d, order_id, content) ==
    LET found == Get(d.orders, order_id)
    IN  IF found = {} THEN Block("", Response("order_not_found", 404), d)
        ELSE LET ord    == The(found)
                 locked == in_progress_locked(ord, content)
             IN  IF ord.status = PyStr("done") \/ ord.status = PyStr("canceled")
                 THEN Block("", Response("order_completed", 400), d)
                 ELSE IF locked = "KeyError"
                 THEN Block("KeyError", Response("", 200), d)
                 ELSE IF locked = "True"
                 THEN Block("", Response("order_in_progress", 400), d)
                 ELSE apply_chain(d, ord, content)

change_order_body(d, order_id, content) ==
    LET found == Get(d.orders, order_id)
    IN  IF found = {} THEN Block("", Response("order_not_found", 404), d)
        ELSE LET ord    == The(found)
                 locked == in_progress_locked(ord, content)
             IN  IF ord.status = PyStr("done") \/ ord.status = PyStr("cancelled")
                 THEN Block("", Response("order_completed", 400), d)
                 ELSE IF locked = "KeyError"
                 THEN Block("KeyError", Response("", 200), d)
                 ELSE IF locked = "True"
                 THEN Block("", Response("order_in_progress", 400), d)
                 ELSE apply_chain(d, ord, content)

\* line 246: the decorator is given drivers_post_schema
change_order(d, order_id, content) ==
    validate_schema(decorator("change_order"), content, d,
                    Outcome(session_scope(d, change_order_body(d, order_id, content))))

(***************************************************************************)
(* Requests.  The JSON bodies the model sends: bodies of the client shape, *)
(* of the driver shape and of the order shape, some of them violating a    *)
(* minLength, a type, the status enum or additionalProperties.             *)
(***************************************************************************)
ClientBodies ==
    {[name |-> PyStr(n), is_vip |-> PyBool(FALSE)] : n \in {"", "a", "bo"}}

DriverBodies ==
    {[name |-> PyStr(n), car |-> PyStr("vw")] : n \in {"a", "bo", "cy"}}

OrderBody(c, x, t, st, at) ==
    [client_id |-> PyInt(c), driver_id |-> PyInt(x), date_created |-> PyStr(t),
     status |-> PyStr(st), address_from |-> PyStr("p"), address_to |-> PyStr(at)]

\* against the seeded order: only address_to changed, or client, driver and
\* date all changed; and one body whose status is outside the enum
OrderBodies ==
    {OrderBody(v[1], v[2], v[3], st, v[4]) :
        v \in {<<1, 1, "t1", "r">>, <<2, 2, "t2", "q">>}, st \in Statuses}
    \cup {OrderBody(1, 1, "t1", "bogus", "q")}

OddBodies ==
    {[name |-> PyInt(1), is_vip |-> PyBool(TRUE)],
     [name |-> PyStr("bo"), car |-> PyStr("vw"), is_vip |-> PyBool(FALSE)]}

AnOrderBody == OrderBody(1, 1, "t1", "in_progress", "r")

\* the bodies sent to each endpoint: those of its own shape, and some of
\* the other shapes
BodiesFor(op) ==
    IF op = "create_client"
    THEN ClientBodies \cup OddBodies \cup {[name |-> PyStr("bo"), car |-> PyStr("vw")], AnOrderBody}
    ELSE IF op = "create_driver"
    THEN DriverBodies \cup OddBodies \cup {[name |-> PyStr("a"), is_vip |-> PyBool(FALSE)], AnOrderBody}
    ELSE OrderBodies \cup DriverBodies \cup OddBodies

Request(op, id, body) == [op |-> op, id |-> id, body |-> body]

(***************************************************************************)
(* The database the service starts on: empty, or holding rows written      *)
(* before this process started (create_all creates missing tables only).   *)
(***************************************************************************)
SeededDB(status) ==
    [clients |-> {Client(1, PyStr("a"), PyBool(FALSE))},
     drivers |-> {Driver(1, PyStr("bo"), PyStr("vw"))},
     orders  |-> {Order(1, PyInt(1), PyInt(1), PyDateTime("t1"), PyStr(status),
                        PyStr("p"), PyStr("q"))},
     seq     |-> [clients |-> 2, drivers |-> 2, orders |-> 2]]

InitDBs ==
    {EmptyDB} \cup {SeededDB(st) : st \in Statuses}

\* the two threads that serve create requests in SpecCreate
Procs == {1, 2}

NoRows == [clients |-> {}, drivers |-> {}, orders |-> {}]

\* a thread's request: where it stands, the view, the body, the rows its
\* transaction has inserted and not committed, the id it was given, and
\* what it returns
Idle ==
    [pc |-> "idle", op |-> "", body |-> {}, pending |-> NoRows, new |-> {},
     ret |-> [code |-> 0, text |-> "", row |-> << >>]]

Init ==
    /\ txn = [p \in Procs |-> Idle]
    /\ db \in InitDBs
    /\ pre = db
    /\ req = Request("start", 0, {})
    /\ resp = [code |-> 0, text |-> "", row |-> << >>]
    /\ trace = << >>

\* one request served: the committed database before and after, the
\* request and its response
Serve(r, out) ==
    /\ pre' = db
    /\ db' = out.db
    /\ req' = r
    /\ resp' = out.resp
    /\ trace' = out.log
    /\ UNCHANGED txn

GetClient == \E id \in Ids : Serve(Request("get_client", id, {}), get_client(db, id))

CreateClient ==
    /\ db.seq.clients <= MaxId
    /\ \E b \in BodiesFor("create_client") : Serve(Request("create_client", 0, {b}), create_client(db, b))

DeleteClient == \E id \in Ids : Serve(Request("delete_client", id, {}), delete_client(db, id))

GetDriver == \E id \in Ids : Serve(Request("get_driver", id, {}), get_driver(db, id))

CreateDriver ==
    /\ db.seq.drivers <= MaxId
    /\ \E b \in BodiesFor("create_driver") : Serve(Request("create_driver", 0, {b}), create_driver(db, b))

DeleteDriver == \E id \in Ids : Serve(Request("delete_driver", id, {}), delete_driver(db, id))

GetOrder == \E id \in Ids : Serve(Request("get_order", id, {}), get_order(db, id))

CreateOrder ==
    /\ db.seq.orders <= MaxId
    /\ \E b \in BodiesFor("create_order") : Serve(Request("create_order", 0, {b}), create_order(db, b))

ChangeOrder ==
    \E id \in Ids, b \in BodiesFor("change_order") :
        Serve(Request("change_order", id, {b}), change_order(db, id, b))

Next ==
    \/ GetClient
    \/ CreateClient
    \/ DeleteClient
    \/ GetDriver
    \/ CreateDriver
    \/ DeleteDriver
    \/ GetOrder
    \/ CreateOrder
    \/ ChangeOrder

Spec == Init /\ [][Next]_vars

(***************************************************************************)
(* Type invariant of Spec.                                                 *)
(***************************************************************************)
TypeOK ==
    /\ Constraints(db)
    /\ resp.code \in {0, 200, 400, 404, 500}
    /\ \A t \in {"clients", "drivers", "orders"} : db.seq[t] \in 1..(MaxId + 1)

(***************************************************************************)
(* Vocabulary of the properties: the last request, the tables before and   *)
(* after it.                                                               *)
(***************************************************************************)
Body == The(req.body)

\* the body has the shape the interface documents for orders
OrderShape(b) == validate(b, orders_post_schema)

\* the order the request's id named before the request, if any
Stored == Get(pre.orders, req.id)

StatusIs(o, st) == o.status = PyStr(st)

TablesUnchanged ==
    /\ db.clients = pre.clients
    /\ db.drivers = pre.drivers
    /\ db.orders = pre.orders

PutOrder == req.op = "change_order"

\* the body proposes other values than the stored ones for all three of
\* date_created, client_id and driver_id
AllThreeDiffer(o, b) ==
    /\ b.date_created.s # o.date_created.s
    /\ b.client_id # o.client_id
    /\ b.driver_id # o.driver_id

\* the body changes address_to and nothing else but, possibly, the status
OnlyAddressTo(o, b) ==
    /\ b.date_created.s = o.date_created.s
    /\ b.client_id = o.client_id
    /\ b.driver_id = o.driver_id
    /\ b.address_from = o.address_from
    /\ b.address_to # o.address_to

(***************************************************************************)
(* C1.  An update of an order whose stored status is done or cancelled is  *)
(* answered 400 whatever the body, and changes nothing; when the body      *)
(* reaches the handler the rejection is the terminal one, so no other      *)
(* lifecycle rule was consulted first.                                     *)
(***************************************************************************)
C1_TerminalOrderRejected ==
    (PutOrder /\ \E o \in Stored : StatusIs(o, "done") \/ StatusIs(o, "cancelled"))
        => /\ resp.code = 400
           /\ resp.text \in {"validation_error", "order_completed"}
           /\ db = pre

C1_Witness ==
    /\ PutOrder
    /\ \E o \in Stored : StatusIs(o, "cancelled")
    /\ resp.text = "order_completed"

(***************************************************************************)
(* C2.  For a stored status not_accepted, an update with a body of the     *)
(* order shape is accepted (200) when the proposed status is in_progress   *)
(* or cancelled, and rejected with 400 otherwise.                          *)
(***************************************************************************)
C2_NotAcceptedTransitions ==
    (PutOrder /\ OrderShape(Body) /\ \E o \in Stored : StatusIs(o, "not_accepted"))
        => IF Body.status.s \in {"in_progress", "cancelled"}
           THEN resp.code = 200
           ELSE resp.code = 400

(***************************************************************************)
(* C3.  For a stored status in_progress, an update with a body of the      *)
(* order shape is accepted exactly when the proposed status is cancelled   *)
(* or done and date_created, client_id and driver_id do not all differ     *)
(* from the stored values.                                                 *)
(***************************************************************************)
C3_InProgressTransitions ==
    \A o \in Stored :
        (PutOrder /\ OrderShape(Body) /\ StatusIs(o, "in_progress"))
            => (resp.code = 200 <=>
                   /\ Body.status.s \in {"cancelled", "done"}
                   /\ ~AllThreeDiffer(o, Body))

(***************************************************************************)
(* C4.  In every reachable state the stored status of every order is one   *)
(* of not_accepted, in_progress, done, cancelled.                          *)
(***************************************************************************)
C4_StatusInEnumeration ==
    \A o \in db.orders : o.status \in {PyStr(st) : st \in Statuses}

C4_Witness ==
    /\ req.op \in {"create_order", "change_order"}
    /\ req.body # {}
    /\ validate(Body, decorator(req.op))
    /\ db.orders # {}

(***************************************************************************)
(* C5.  POST /orders with a body of the order shape answers 200 and stores *)
(* exactly one new order; with any other body it answers 400 and stores    *)
(* nothing.                                                                *)
(***************************************************************************)
C5_CreateOrderByShape ==
    req.op = "create_order"
        => IF OrderShape(Body)
           THEN /\ resp.code = 200
                /\ pre.orders \subseteq db.orders
                /\ Cardinality(db.orders \ pre.orders) = 1
           ELSE /\ resp.code = 400
                /\ db.orders = pre.orders

(***************************************************************************)
(* C6.  An order in status in_progress accepts an update that changes only *)
(* address_to, with the proposed status in_progress or done.               *)
(***************************************************************************)
C6_AddressOnlyUpdateAccepted ==
    \A o \in Stored :
        (/\ PutOrder
         /\ OrderShape(Body)
         /\ StatusIs(o, "in_progress")
         /\ OnlyAddressTo(o, Body)
         /\ Body.status.s \in {"in_progress", "done"})
            => resp.code = 200

(***************************************************************************)
(* C7.  Round trip: after POST /orders with a valid field set F there is a *)
(* new order whose GET shows the six fields of F under a new id.           *)
(***************************************************************************)
C7_CreateThenGet ==
    (req.op = "create_order" /\ OrderShape(Body))
        => \E o \in db.orders :
              /\ \A q \in pre.orders : q.id # o.id
              /\ LET got == get_order(db, o.id).resp
                 IN  /\ got.code = 200
                     /\ got.text = "Order"
                     /\ got.row[1] = PyInt(o.id)
                     /\ got.row[2] = Body.client_id
                     /\ got.row[3] = Body.driver_id
                     /\ got.row[4] = Body.address_from
                     /\ got.row[5] = Body.address_to
                     /\ got.row[6].s = Body.date_created.s
                     /\ got.row[7] = Body.status

(***************************************************************************)
(* C8.  A request that ends in 400, 404 or an unhandled exception leaves   *)
(* the committed rows of clients, drivers and orders as they were; and a   *)
(* body that fails the validation of its endpoint is answered by the       *)
(* decorator, with the database untouched.                                 *)
(***************************************************************************)
C8_ErrorsCommitNothing ==
    /\ resp.code \in {400, 404, 500} => TablesUnchanged
    /\ (req.body # {} /\ ~validate(Body, decorator(req.op)))
           => resp = Response("validation_error", 400) /\ db = pre

\* an error after work in the session: the delete of a referenced client
\* is refused at commit and rolled back
C8_Witness ==
    /\ req.op = "delete_client"
    /\ resp = Unhandled("IntegrityError")
    /\ Get(pre.clients, req.id) # {}
    /\ db.clients = pre.clients

(***************************************************************************)
(* C9.  DELETE of a client or driver removes exactly the record with that  *)
(* id and answers 200 when it exists, answers 404 and changes nothing when *)
(* it does not; PUT /orders/{id} for an id with no order answers 404 and   *)
(* changes nothing.                                                        *)
(***************************************************************************)
C9_DeleteAndMissingOrder ==
    /\ req.op = "delete_client"
          => IF Get(pre.clients, req.id) # {}
             THEN /\ resp.code = 200
                  /\ db.clients = pre.clients \ Get(pre.clients, req.id)
                  /\ db.drivers = pre.drivers /\ db.orders = pre.orders
             ELSE resp.code = 404 /\ db = pre
    /\ req.op = "delete_driver"
          => IF Get(pre.drivers, req.id) # {}
             THEN /\ resp.code = 200
                  /\ db.drivers = pre.drivers \ Get(pre.drivers, req.id)
                  /\ db.clients = pre.clients /\ db.orders = pre.orders
             ELSE resp.code = 404 /\ db = pre
    /\ (PutOrder /\ OrderShape(Body) /\ Stored = {})
          => resp.code = 404 /\ db = pre

(***************************************************************************)
(* C10.  As claimed: a GET of a client, driver or order whose id names no  *)
(* record ends in an unhandled error.                                      *)
(***************************************************************************)
GetMissing ==
    \/ req.op = "get_client" /\ Get(pre.clients, req.id) = {}
    \/ req.op = "get_driver" /\ Get(pre.drivers, req.id) = {}
    \/ req.op = "get_order"  /\ Get(pre.orders, req.id) = {}

LegalStep(from, to) ==
    \/ from = "not_accepted" /\ to \in {"in_progress", "cancelled"}
    \/ from = "in_progress"  /\ to \in {"cancelled", "done"}

RulesAccept(o, b) ==
    /\ LegalStep(o.status.s, b.status.s)
    /\ ~(StatusIs(o, "in_progress") /\ AllThreeDiffer(o, b))

C11_AcceptedUpdateAppliesAllFields ==
    \A o \in Stored :
        (PutOrder /\ OrderShape(Body) /\ RulesAccept(o, Body))
            => /\ resp.code = 200
               /\ \E n \in Get(db.orders, o.id) :
                     /\ n.client_id = Body.client_id
                     /\ n.driver_id = Body.driver_id
                     /\ n.date_created.s = Body.date_created.s
                     /\ n.status = Body.status
                     /\ n.address_from = Body.address_from
                     /\ n.address_to = Body.address_to
               /\ resp.row = <<PyInt(o.id), Body.client_id, Body.driver_id,
                               Body.address_from, Body.address_to,
                               Body.date_created, Body.status>>

(***************************************************************************)
(* C12.  Every use of session_scope acquires the session, runs the block,  *)
(* then commits or rolls back, then closes.  A block that ends normally, a *)
(* 400 or 404 returned from inside it included, is committed; a block that *)
(* raises is rolled back without a commit, a commit that raises is rolled  *)
(* back, and in both cases the exception reaches the caller; the session   *)
(* is closed exactly once, last, on every path.                            *)
(***************************************************************************)
Count(log, call) == Cardinality({i \in 1..Len(log) : log[i] = call})

\* the request reached its view function, which opens a session
EntersView == req.op # "start" /\ (req.body = {} \/ validate(Body, decorator(req.op)))

C12_SessionLifecycle ==
    /\ EntersView <=> trace # << >>
    /\ trace # << >> =>
          /\ trace[1] = "Session" /\ trace[2] = "yield"
          /\ trace[Len(trace)] = "close"
          /\ Count(trace, "Session") = 1 /\ Count(trace, "close") = 1
          /\ resp.code \in {200, 400, 404}
                => trace = <<"Session", "yield", "commit", "close">>
          /\ resp.code = 500
                => /\ trace \in {<<"Session", "yield", "rollback", "close">>,
                                 <<"Session", "yield", "commit", "rollback", "close">>}
                   /\ TablesUnchanged
          /\ resp.text = "KeyError" => trace = <<"Session", "yield", "rollback", "close">>
          /\ (req.op \in {"delete_client", "delete_driver"} /\ resp.code = 500)
                => trace = <<"Session", "yield", "commit", "rollback", "close">>

\* a commit that raised: rolled back, then closed
C12_Witness ==
    /\ trace = <<"Session", "yield", "commit", "rollback", "close">>
    /\ resp = Unhandled("IntegrityError")

(***************************************************************************)
(* Two create requests served by two threads.  Each thread has its own     *)
(* session (scoped_session is thread-local) and its own transaction, at    *)
(* the database's default isolation level, READ COMMITTED: a statement     *)
(* sees the committed rows and the rows of its own transaction.  The       *)
(* steps of a create view are the statements it sends: the INSERT that the *)
(* autoflush before the query sends, the SELECT of the query, the COMMIT.  *)
(***************************************************************************)
CreateViews == {"create_client", "create_driver", "create_order"}

TableOf(view) ==
    IF view = "create_client" THEN "clients"
    ELSE IF view = "create_driver" THEN "drivers" ELSE "orders"

\* the tables as the statements of thread p see them
View(p) ==
    [db EXCEPT !.clients = @ \cup txn[p].pending.clients,
               !.drivers = @ \cup txn[p].pending.drivers,
               !.orders  = @ \cup txn[p].pending.orders]

\* the request arrives: the decorator, then Session() (lines 110-121, 132)
Call(p) ==
    /\ txn[p].pc = "idle"
    /\ \E view \in CreateViews : \E b \in BodiesFor(view) :
          txn' = [txn EXCEPT ![p] =
                    IF validate(b, decorator(view))
                    THEN [Idle EXCEPT !.pc = "add", !.op = view, !.body = {b}]
                    ELSE [Idle EXCEPT !.pc = "done", !.op = view, !.body = {b},
                                      !.ret = Response("validation_error", 400)]]
    /\ UNCHANGED <<db, pre, req, resp, trace>>

\* the INSERT of thread p's view on the tables it sees
InsertFor(p) ==
    LET b == The(txn[p].body)
        v == View(p)
    IN  IF txn[p].op = "create_client"
        THEN IF {"name", "is_vip"} \subseteq DOMAIN b
             THEN InsertClient(v, b["name"], b["is_vip"])
             ELSE [ok |-> FALSE, raised |-> "KeyError", tx |-> v]
        ELSE IF txn[p].op = "create_driver"
        THEN IF {"name", "car"} \subseteq DOMAIN b
             THEN InsertDriver(v, b["name"], b["car"])
             ELSE [ok |-> FALSE, raised |-> "KeyError", tx |-> v]
        ELSE IF OrderKeys \subseteq DOMAIN b
             THEN InsertOrder(v, Order(0, b["client_id"], b["driver_id"],
                                       b["date_created"], b["status"],
                                       b["address_from"], b["address_to"]))
             ELSE [ok |-> FALSE, raised |-> "KeyError", tx |-> v]

\* a unique index makes an INSERT wait for the transaction that holds an
\* uncommitted row with the same key
Waits(p) ==
    /\ txn[p].op \in {"create_client", "create_driver"}
    /\ "name" \in DOMAIN The(txn[p].body)
    /\ \E q \in Procs \ {p} : \E r \in txn[q].pending[TableOf(txn[p].op)] :
          r.name = The(txn[p].body)["name"]

\* the object is built and added, and the flush sends the INSERT (lines
\* 160-162, 196-198, 232-241); an exception ends the request in rollback
Add(p) ==
    /\ txn[p].pc = "add"
    /\ ~Waits(p)
    /\ LET t   == TableOf(txn[p].op)
           ins == InsertFor(p)
           row == ins.tx[t] \ View(p)[t]
       IN  /\ db' = [db EXCEPT !.seq = ins.tx.seq]
           /\ txn' = [txn EXCEPT ![p] =
                        IF ins.ok
                        THEN [@ EXCEPT !.pc = "read", !.pending[t] = row,
                                       !.new = {r.id : r \in row}]
                        ELSE [@ EXCEPT !.pc = "done", !.ret = Unhandled(ins.raised)]]
    /\ UNCHANGED <<pre, req, resp, trace>>

\* the SELECT ... ORDER BY id DESC LIMIT 1 and the __repr__ of its row
\* (lines 162-163, 198-199, 241-242)
Read(p) ==
    /\ txn[p].pc = "read"
    /\ LET t    == TableOf(txn[p].op)
           info == First(View(p)[t])
           row  == IF t = "clients" THEN ClientRow(The(info))
                   ELSE IF t = "drivers" THEN DriverRow(The(info))
                   ELSE OrderRow(The(info))
           text == IF t = "clients" THEN "Client"
                   ELSE IF t = "drivers" THEN "Driver" ELSE "Order"
       IN  txn' = [txn EXCEPT ![p].pc = "commit", ![p].ret = repr_of(info, text, row)]
    /\ UNCHANGED <<db, pre, req, resp, trace>>

\* the block ends and session_scope commits (line 135)
Commit(p) ==
    /\ txn[p].pc = "commit"
    /\ db' = [db EXCEPT !.clients = @ \cup txn[p].pending.clients,
                        !.drivers = @ \cup txn[p].pending.drivers,
                        !.orders  = @ \cup txn[p].pending.orders]
    /\ txn' = [txn EXCEPT ![p].pc = "done", ![p].pending = NoRows]
    /\ UNCHANGED <<pre, req, resp, trace>>

NextCreate == \E p \in Procs : Call(p) \/ Add(p) \/ Read(p) \/ Commit(p)

SpecCreate == Init /\ [][NextCreate]_vars

(***************************************************************************)
(* Vocabulary for the create requests of SpecCreate.                       *)
(***************************************************************************)
\* thread p's request has inserted a record and read back
Created(p) == txn[p].new # {} /\ txn[p].pc \in {"commit", "done"}

\* the id shown in a __repr__ response
ShownId(r) == IF r.text = "Order" THEN r.row[1].n ELSE r.row[3].n

\* every row of a table, committed or not
AllRows(t) == db[t] \cup UNION {txn[q].pending[t] : q \in Procs}

\* the id of thread p's record is the id of no other record of its type
FreshId(p) ==
    LET t == TableOf(txn[p].op)
    IN  \A i \in txn[p].new :
           /\ Cardinality({r \in AllRows(t) : r.id = i}) <= 1
           /\ \A q \in Procs \ {p} : txn[q].op = txn[p].op => i \notin txn[q].new

(***************************************************************************)
(* C13.  As claimed: in every interleaving of two create requests, a       *)
(* request that created a record got an id no other record of the type     *)
(* has, and returns the record it created itself.                          *)
(***************************************************************************)
C13_CreateReturnsOwnRecord ==
    \A p \in Procs :
        Created(p) => /\ FreshId(p)
                      /\ txn[p].ret.code = 200
                      /\ ShownId(txn[p].ret) \in txn[p].new

(***************************************************************************)
(* C13, amended.  A create request that stores a record (POST /clients,    *)
(* POST /drivers; POST /orders stores none) gets an id no other record of  *)
(* the type has, and returns the record with the highest id it sees when   *)
(* it reads back: its own record, or, when the other create request of the *)
(* type inserted after it and committed before it read, that request's     *)
(* record.                                                                 *)
(***************************************************************************)
C13_CreateReturnsHighestId ==
    \A p \in Procs :
        /\ txn[p].op = "create_order" => txn[p].new = {}
        /\ Created(p) =>
              /\ FreshId(p)
              /\ txn[p].ret.code = 200
              /\ \A i \in txn[p].new :
                    \/ ShownId(txn[p].ret) = i
                    \/ /\ ShownId(txn[p].ret) > i
                       /\ \E q \in Procs \ {p} :
                             /\ txn[q].op = txn[p].op
                             /\ txn[q].new = {ShownId(txn[p].ret)}
                             /\ txn[q].pc = "done"

\* both requests created a client, and one of them returns the other's
C13_Witness ==
    \E p \in Procs : \E q \in Procs \ {p} :
        /\ Created(p) /\ Created(q)
        /\ txn[p].op = "create_client" /\ txn[q].op = "create_client"
        /\ txn[p].pc = "done" /\ txn[q].pc = "done"
        /\ ShownId(txn[p].ret) \in txn[q].new
        /\ ShownId(txn[q].ret) \in txn[q].new

(***************************************************************************)
(* No request changes the orders table: POST and PUT /orders either fail   *)
(* the drivers schema they are decorated with, or pass it and raise        *)
(* KeyError on the first order key they read, or are rejected.  What a PUT *)
(* does depends on the body and on the row it read only, so this holds of  *)
(* concurrent requests as well: no update of an order is ever committed,   *)
(* and no stored status ever changes.                                      *)
(***************************************************************************)
OrdersNeverWritten == db.orders = pre.orders

PutNeverWrites ==
    \A o \in db.orders : \A b \in BodiesFor("change_order") :
        LET out == change_order(db, o.id, b)
        IN  out.db = db /\ out.resp.code \in {400, 500}

=============================================================================
